---- MODULE Spec2Model ----
(***************************************************************************)
(* A state-machine model of the sid version-control engine (sid/repo.py,   *)
(* sid/index.py, sid/objects.py, sid/refs.py).                             *)
(*                                                                         *)
(* A repository is a directory with working files and a metadata directory *)
(* .sid holding HEAD, index, objects/<oid> and refs/**.  Every file the    *)
(* engine reads or writes is a piece of the state below.  SHA-1 is         *)
(* modelled as a collision-free digest: the digest of a byte string is     *)
(* represented by that byte string (header included), so two digests are   *)
(* equal exactly when the hashed bytes are equal.                          *)
(***************************************************************************)
EXTENDS Integers, Sequences, FiniteSets, TLC

VARIABLES
    workdir,     \* [repo -> (path -> bytes)]   regular files outside .sid
    index,       \* [repo -> (path -> oid)]     Index._data of the Repo object
    index_file,  \* [repo -> [exists, data]]    .sid/index
    objects,     \* [repo -> (oid -> payload)]  .sid/objects/<oid>
    HEAD,        \* [repo -> text]              .sid/HEAD (NoFile when absent)
    refs,        \* [repo -> (name -> text)]    regular files under .sid/refs
    dirs,        \* [repo -> set of directories] which of .sid, .sid/objects,
                 \* .sid/refs/heads and .sid/refs/remotes/<name> exist
    now,         \* int(time.time())
    stashed,     \* [repo -> saves not yet popped, oldest first: [slot, tree]]
    last         \* outcome of the last call (operation, arguments, result)

vars == <<workdir, index, index_file, objects, HEAD, refs, dirs, now, stashed, last>>

----------------------------------------------------------------------------
(* Bounds and input sets *)

MaxTime    == 1      \* the clock runs over 0..MaxTime
MaxCommits == 3      \* commit objects a store may hold before commits stop
MaxStash   == 2      \* stash slots a repository may hold before saves stop

Repos       == {"A", "B"}
PathOrder   == <<"a.txt", "b.txt">>          \* working-tree paths, sorted
Paths       == {PathOrder[i] : i \in 1..Len(PathOrder)}
Contents    == {"1", "2"}
BranchNames == {"master", "dev"}
RemoteNames == {"origin"}
Messages    == {"m"}
Authors     == {" <>"}                        \* cli.py: f"{name} <{email}>"

None   == "None"     \* Python's None
NoFile == "NoFile"   \* the file does not exist

Truthy(v) == v # None /\ v # ""

RepoPath(r) == "/" \o r                       \* Repo.workdir
FileUrl(r)  == "file://" \o RepoPath(r)
Urls        == {FileUrl(r) : r \in Repos} \cup {"http://host/B"}

\* url.startswith('file://'), over the URLs the model registers
startswith_file(url) == \E r \in Repos : url = FileUrl(r)
\* slip: the path of the URL is dropped, the current directory is taken
RepoAt_here(url) == "A"

\* the repository at Path(url[len('file://'):])
RepoAt(url) == CHOOSE r \in Repos : url = FileUrl(r)

EmptyMap == <<>>

\* dict with key k set to v
Put(f, k, v) == [x \in DOMAIN f \cup {k} |-> IF x = k THEN v ELSE f[x]]
\* dict with key k removed
Del(f, k) == [x \in DOMAIN f \ {k} |-> f[x]]
\* dict.get(k): None when the key is absent
get(d, k) == IF k \in DOMAIN d THEN d[k] ELSE None

----------------------------------------------------------------------------
(* sid/objects.py *)

\* slip: the type tag is left out of the hashed bytes
hash_untagged(header, data) == data

\* ObjectStore._hash: sha1(header + data)
hash(header, data) == header \o data

\* hashlib.sha1(data).hexdigest() as status calls it: no header
sha1(data) == hash("", data)

blob_oid(data) == hash("blob ", data)

\* ObjectStore.write_blob: the store after the write (no-op when present)
write_blob(store, data) ==
    IF blob_oid(data) \in DOMAIN store THEN store
    ELSE Put(store, blob_oid(data), data)

json_str(v) == IF v = None THEN "null" ELSE "\"" \o v \o "\""

RECURSIVE json_items(_, _)
json_items(t, keys) ==
    IF keys = <<>> THEN ""
    ELSE json_str(Head(keys)) \o ": " \o json_str(t[Head(keys)])
         \o (IF Tail(keys) = <<>> THEN "" ELSE ", " \o json_items(t, Tail(keys)))

\* json.dumps(tree, sort_keys=True)
InTree(t, p) == p \in DOMAIN t
dumps_tree(t) ==
    "{" \o json_items(t, SelectSeq(PathOrder, LAMBDA p : InTree(t, p))) \o "}"

\* json.dumps(obj, sort_keys=True) of a commit dict
dumps(c) ==
    "{\"author\": " \o json_str(c.author)
    \o ", \"message\": " \o json_str(c.message)
    \o ", \"parent\": " \o json_str(c.parent)
    \o (IF "parent2" \in DOMAIN c
        THEN ", \"parent2\": " \o json_str(c.parent2) ELSE "")
    \o ", \"timestamp\": " \o ToString(c.timestamp)
    \o ", \"tree\": " \o dumps_tree(c.tree) \o "}"

commit_oid(c) == hash("commit ", dumps(c))

\* slip: the hash is returned but the object file is not written
write_commit_lost(store, c) == store

\* ObjectStore.write_commit: the store after the write (no-op when present)
write_commit(store, c) ==
    IF commit_oid(c) \in DOMAIN store THEN store
    ELSE Put(store, commit_oid(c), c)

\* ObjectStore.read_commit / read_blob: the payload stored under oid
read_commit(store, oid) == store[oid]
read_blob(store, oid) == store[oid]

\* oid is a digest _hash computed under this header
has_header(oid, header) ==
    Len(oid) >= Len(header) /\ SubSeq(oid, 1, Len(header)) = header

\* the objects write_commit stored: the oids hashed under the header 'commit '
\* (a blob holding the bytes of a commit is hashed under 'blob ')
Commits(store) == {o \in DOMAIN store : has_header(o, "commit ")}

----------------------------------------------------------------------------
(* sid/refs.py *)

\* read_ref: text of .sid/<ref>, None when the file is absent or empty
read_ref(rf, ref) ==
    IF ref \in DOMAIN rf THEN (IF rf[ref] = "" THEN None ELSE rf[ref]) ELSE None

\* write_ref: the ref files after p.write_text(oid or '')
write_ref(rf, ref, oid) == Put(rf, ref, IF Truthy(oid) THEN oid ELSE "")

HeadsRef(b)       == "refs/heads/" \o b
RemoteFile(n)     == "refs/remotes/" \o n
HeadsDir          == ".sid/refs/heads"
RemoteDir(n)      == ".sid/refs/remotes/" \o n
TrackingRef(n, b) == "refs/remotes/" \o n \o "/heads/" \o b
StashRef(i)       == "refs/stash/" \o ToString(i)

----------------------------------------------------------------------------
(* sid/index.py *)

\* Index._save: the index file after json.dumps(self._data)
save(data) == [exists |-> TRUE, data |-> data]

\* Index._load: the file's mapping, {} when there is no file
load(file) == IF file.exists THEN file.data ELSE EmptyMap

\* Index.stage / Index.unstage / Index.clear: the new _data
stage(data, path, oid) == Put(data, path, oid)
unstage(data, path) == Del(data, path)

\* slip: clear leaves the entries in place
clear_kept(data) == data

clear(data) == EmptyMap

----------------------------------------------------------------------------
(* sid/repo.py: helpers *)

head_ref(r) == HEAD[r]
head_oid(r) == read_ref(refs[r], head_ref(r))
update_ref(rf, ref, oid) == write_ref(rf, ref, IF Truthy(oid) THEN oid ELSE "")

\* the Repo object for r has been constructed (HEAD is written by __init__)
Opened(r) == HEAD[r] # NoFile

\* what a call leaves behind for its caller: exception raised ("" when it
\* returned), value returned or line printed, for status the two lists, and
\* for a stash pop the paths at which it changed the working files
Outcome(op, r, args, exc, ret) ==
    [op |-> op, repo |-> r, args |-> args, exc |-> exc, ret |-> ret,
     staged |-> {}, changed |-> {}]

\* Repo.__init__ / _ensure_structure / ObjectStore.__init__ / Index.__init__
Repo(r) ==
    /\ ~Opened(r)
    /\ dirs' = [dirs EXCEPT ![r] = @ \cup {".sid", ".sid/objects", HeadsDir}]
    /\ HEAD' = [HEAD EXCEPT ![r] = "refs/heads/master"]
    /\ index' = [index EXCEPT ![r] = load(index_file[r])]
    /\ last' = Outcome("Repo", r, <<>>, "", "")
    /\ UNCHANGED <<workdir, index_file, objects, refs, now, stashed>>

\* the user writes or removes a working file (tests: Path.write_text)
WriteFile(r, p, d) ==
    /\ Opened(r)
    /\ get(workdir[r], p) # d
    /\ workdir' = [workdir EXCEPT ![r] = Put(@, p, d)]
    /\ last' = Outcome("write", r, <<p, d>>, "", "")
    /\ UNCHANGED <<index, index_file, objects, HEAD, refs, dirs, now, stashed>>

DeleteFile(r, p) ==
    /\ Opened(r)
    /\ p \in DOMAIN workdir[r]
    /\ workdir' = [workdir EXCEPT ![r] = Del(@, p)]
    /\ last' = Outcome("unlink", r, <<p>>, "", "")
    /\ UNCHANGED <<index, index_file, objects, HEAD, refs, dirs, now, stashed>>

\* time.time() moves on
Tick ==
    /\ now < MaxTime
    /\ now' = now + 1
    /\ last' = Outcome("tick", "", <<>>, "", "")
    /\ UNCHANGED <<workdir, index, index_file, objects, HEAD, refs, dirs, stashed>>

\* slip: the blobs are written into an emptied store
write_blobs_fresh(store, w, ps) == EmptyMap

RECURSIVE write_blobs(_, _, _)
\* write_blob for each file of the sequence ps, in turn
write_blobs(store, w, ps) ==
    IF ps = <<>> THEN store
    ELSE write_blobs(write_blob(store, w[Head(ps)]), w, Tail(ps))

\* the working files (rglob('*') outside .sid), as a sequence
InDir(w, p) == p \in DOMAIN w
Files(w) == SelectSeq(PathOrder, LAMBDA p : InDir(w, p))

\* Repo.add
add(r, path) ==
    /\ Opened(r)
    /\ IF path # "." /\ path \notin DOMAIN workdir[r]
       THEN /\ last' = Outcome("add", r, <<path>>, "FileNotFoundError", "")
            /\ UNCHANGED <<objects, index, index_file>>
       ELSE LET fs == IF path = "." THEN Files(workdir[r]) ELSE <<path>>
                staged == [p \in DOMAIN index[r] \cup {fs[i] : i \in 1..Len(fs)} |->
                             IF \E i \in 1..Len(fs) : fs[i] = p
                             THEN blob_oid(workdir[r][p]) ELSE index[r][p]]
            IN /\ objects' = [objects EXCEPT ![r] = write_blobs(@, workdir[r], fs)]
               /\ index' = [index EXCEPT ![r] = staged]
               /\ index_file' = [index_file EXCEPT ![r] =
                                   IF fs = <<>> THEN @ ELSE save(staged)]
               /\ last' = Outcome("add", r, <<path>>, "", "")
    /\ UNCHANGED <<workdir, HEAD, refs, dirs, now, stashed>>

\* Repo.reset
reset(r, path) ==
    /\ Opened(r)
    /\ index' = [index EXCEPT ![r] = unstage(@, path)]
    /\ index_file' = [index_file EXCEPT ![r] =
                        IF path \in DOMAIN index[r] THEN save(unstage(index[r], path)) ELSE @]
    /\ last' = Outcome("reset", r, <<path>>, "", "")
    /\ UNCHANGED <<workdir, objects, HEAD, refs, dirs, now, stashed>>

\* Repo.rm
rm(r, path) ==
    /\ Opened(r)
    /\ workdir' = [workdir EXCEPT ![r] = Del(@, path)]
    /\ index' = [index EXCEPT ![r] = unstage(@, path)]
    /\ index_file' = [index_file EXCEPT ![r] =
                        IF path \in DOMAIN index[r] THEN save(unstage(index[r], path)) ELSE @]
    /\ last' = Outcome("rm", r, <<path>>, "", "")
    /\ UNCHANGED <<objects, HEAD, refs, dirs, now, stashed>>

\* Repo.status: the two lists it prints
status(r) ==
    /\ Opened(r)
    /\ LET staged == index[r]
           changed == {p \in DOMAIN workdir[r] :
                          /\ Truthy(get(staged, p))
                          /\ get(staged, p) # sha1(workdir[r][p])}
       IN last' = [Outcome("status", r, <<>>, "", "") EXCEPT
                     !.staged = DOMAIN staged, !.changed = changed]
    /\ UNCHANGED <<workdir, index, index_file, objects, HEAD, refs, dirs, now, stashed>>

\* a commit may be written: it is stored already, or the store has room
CanStore(store, c) ==
    commit_oid(c) \in DOMAIN store \/ Cardinality(Commits(store)) < MaxCommits

\* slip: the parent is left out
commit_dict_orphan(r, message, author) ==
    [tree |-> index[r], parent |-> None, author |-> author,
     message |-> message, timestamp |-> now]

\* slip: the parent is the name of the ref, not the hash it holds
commit_dict_refname(r, message, author) ==
    [tree |-> index[r], parent |-> head_ref(r), author |-> author,
     message |-> message, timestamp |-> now]

\* the commit dict commit builds (repo.py 97-104)
commit_dict(r, message, author) ==
    [tree |-> index[r], parent |-> head_oid(r), author |-> author,
     message |-> message, timestamp |-> now]

\* Repo.commit
commit(r, message, author) ==
    /\ Opened(r)
    /\ CanStore(objects[r], commit_dict(r, message, author))
    /\ LET commit_obj == commit_dict(r, message, author)
           oid == commit_oid(commit_obj)
       IN /\ objects' = [objects EXCEPT ![r] = write_commit(@, commit_obj)]
          /\ refs' = [refs EXCEPT ![r] = update_ref(@, head_ref(r), oid)]
          /\ index' = [index EXCEPT ![r] = clear(@)]
          /\ index_file' = [index_file EXCEPT ![r] = save(clear(index[r]))]
          /\ last' = Outcome("commit", r, <<message, author>>, "", oid)
    /\ UNCHANGED <<workdir, HEAD, dirs, now, stashed>>

\* slip: the ref is updated before the commit object is written
commit_first_write_ref(r, message, author) ==
    [objects |-> objects[r],
     refs |-> update_ref(refs[r], head_ref(r), commit_oid(commit_dict(r, message, author)))]

\* Repo.commit up to line 105: the object store and the ref files when
\* write_commit has returned and update_ref has not been called yet
commit_first_write(r, message, author) ==
    [objects |-> write_commit(objects[r], commit_dict(r, message, author)),
     refs |-> refs[r]]

\* Repo.commit interrupted between lines 105 and 106: the process dies with
\* the commit object written; the next process constructs its Index from
\* the index file
commit_crash(r, message, author) ==
    /\ Opened(r)
    /\ CanStore(objects[r], commit_dict(r, message, author))
    /\ LET done == commit_first_write(r, message, author)
       IN /\ objects' = [objects EXCEPT ![r] = done.objects]
          /\ refs' = [refs EXCEPT ![r] = done.refs]
          /\ index' = [index EXCEPT ![r] = load(index_file[r])]
          /\ last' = Outcome("commit", r, <<message, author>>, "crash",
                             commit_oid(commit_dict(r, message, author)))
    /\ UNCHANGED <<workdir, index_file, HEAD, dirs, now, stashed>>

\* Repo.create_branch: the ref files after it
create_branch_refs(r, name) ==
    write_ref(refs[r], HeadsRef(name), IF Truthy(head_oid(r)) THEN head_oid(r) ELSE "")

create_branch(r, name) ==
    /\ Opened(r)
    /\ refs' = [refs EXCEPT ![r] = create_branch_refs(r, name)]
    /\ last' = Outcome("create_branch", r, <<name>>, "", "")
    /\ UNCHANGED <<workdir, index, index_file, objects, HEAD, dirs, now, stashed>>

RECURSIVE walk_delete_any(_, _, _)
\* slip: the walk also descends into parent2
walk_delete_any(store, o, branch_oid) ==
    IF ~Truthy(o) THEN "exhausted"
    ELSE IF o \notin DOMAIN store THEN "missing"
    ELSE IF o = branch_oid THEN "found"
    ELSE IF walk_delete_any(store, get(read_commit(store, o), "parent2"), branch_oid) = "found"
         THEN "found"
    ELSE walk_delete_any(store, get(read_commit(store, o), "parent"), branch_oid)

RECURSIVE walk_delete(_, _, _)
\* Repo.delete_branch, the walk from HEAD: each commit is read, then compared
walk_delete(store, o, branch_oid) ==
    IF ~Truthy(o) THEN "exhausted"
    ELSE IF o \notin DOMAIN store THEN "missing"
    ELSE IF o = branch_oid THEN "found"
    ELSE walk_delete(store, get(read_commit(store, o), "parent"), branch_oid)

\* Repo.delete_branch: the branch is refused (RuntimeError 'branch not merged')
not_merged(store, branch_oid, head) ==
    /\ Truthy(branch_oid) /\ Truthy(head) /\ branch_oid # head
    /\ walk_delete(store, head, branch_oid) = "exhausted"

delete_branch(r, name, force) ==
    /\ Opened(r)
    /\ LET ref == HeadsRef(name)
           branch_oid == read_ref(refs[r], ref)
           head == head_oid(r)
           exc == IF ref \notin DOMAIN refs[r] THEN "FileNotFoundError"
                  ELSE IF force THEN ""
                  ELSE IF not_merged(objects[r], branch_oid, head) THEN "RuntimeError"
                  ELSE IF /\ Truthy(branch_oid) /\ Truthy(head) /\ branch_oid # head
                          /\ walk_delete(objects[r], head, branch_oid) = "missing"
                       THEN "FileNotFoundError"
                  ELSE ""
       IN /\ refs' = [refs EXCEPT ![r] = IF exc = "" THEN Del(@, ref) ELSE @]
          /\ last' = Outcome("delete_branch", r, <<name, force>>, exc, "")
    /\ UNCHANGED <<workdir, index, index_file, objects, HEAD, dirs, now, stashed>>

\* slip: no path of the tree is written out
TreePaths_none(tree) == <<>>

\* the paths of a tree in the order its dict is iterated (sorted keys)
TreePaths(tree) == SelectSeq(PathOrder, LAMBDA p : InTree(tree, p))

RECURSIVE write_tree(_, _, _, _)
\* dest.write_bytes(read_blob(oid)) for each path in turn; stops at a blob
\* that is not in the store
write_tree(w, store, tree, ps) ==
    IF ps = <<>> THEN w
    ELSE IF tree[Head(ps)] \notin DOMAIN store THEN w
    ELSE write_tree(Put(w, Head(ps), read_blob(store, tree[Head(ps)])), store, tree, Tail(ps))

AllBlobs(store, tree) == \A p \in DOMAIN tree : tree[p] \in DOMAIN store

\* Repo.checkout
checkout(r, branch, create) ==
    /\ Opened(r)
    /\ LET rf == IF create THEN create_branch_refs(r, branch) ELSE refs[r]
           head == read_ref(rf, HeadsRef(branch))
           store == objects[r]
       IN /\ refs' = [refs EXCEPT ![r] = rf]
          /\ HEAD' = [HEAD EXCEPT ![r] = HeadsRef(branch)]
          /\ IF ~Truthy(head)
             THEN /\ UNCHANGED workdir
                  /\ last' = Outcome("checkout", r, <<branch, create>>, "", "")
             ELSE IF head \notin DOMAIN store
             THEN /\ UNCHANGED workdir
                  /\ last' = Outcome("checkout", r, <<branch, create>>, "FileNotFoundError", "")
             ELSE LET tree == get(read_commit(store, head), "tree")
                  IN /\ workdir' = [workdir EXCEPT ![r] =
                                      write_tree(EmptyMap, store, tree, TreePaths(tree))]
                     /\ last' = Outcome("checkout", r, <<branch, create>>,
                                        IF AllBlobs(store, tree) THEN "" ELSE "FileNotFoundError", "")
    /\ UNCHANGED <<index, index_file, objects, dirs, now, stashed>>

RECURSIVE walk_merge_late(_, _, _)
\* slip: the walk moves to the parent before the first comparison
walk_merge_late(store, o, head) ==
    IF ~Truthy(o) THEN "exhausted"
    ELSE IF o \notin DOMAIN store THEN "missing"
    ELSE IF get(read_commit(store, o), "parent") = head /\ Truthy(head) THEN "found"
    ELSE walk_merge_late(store, get(read_commit(store, o), "parent"), head)

RECURSIVE walk_merge(_, _, _)
\* Repo.merge / Repo.pull, the walk from the target: compared, then read
walk_merge(store, o, head) ==
    IF ~Truthy(o) THEN "exhausted"
    ELSE IF o = head THEN "found"
    ELSE IF o \notin DOMAIN store THEN "missing"
    ELSE walk_merge(store, get(read_commit(store, o), "parent"), head)

\* slip: the two parents are exchanged
merge_commit_swapped(r, branch, head, target_oid) ==
    [tree |-> index[r], parent |-> target_oid, parent2 |-> head, author |-> None,
     message |-> "Merge branch " \o branch \o " into " \o head_ref(r),
     timestamp |-> now]

\* the commit dict merge builds (repo.py 233-240)
merge_commit(r, branch, head, target_oid) ==
    [tree |-> index[r], parent |-> head, parent2 |-> target_oid, author |-> None,
     message |-> "Merge branch " \o branch \o " into " \o head_ref(r),
     timestamp |-> now]

\* Repo.merge
merge(r, branch) ==
    /\ Opened(r)
    /\ LET target_ref == HeadsRef(branch)
           target_oid == read_ref(refs[r], target_ref)
           head == head_oid(r)
           found == walk_merge(objects[r], target_oid, head)
           commit_obj == merge_commit(r, branch, head, target_oid)
           oid == commit_oid(commit_obj)
       IN IF target_ref \notin DOMAIN refs[r]
          THEN /\ last' = Outcome("merge", r, <<branch>>, "FileNotFoundError", "")
               /\ UNCHANGED <<objects, refs>>
          ELSE IF ~Truthy(target_oid)
          THEN /\ last' = Outcome("merge", r, <<branch>>, "", "")
               /\ UNCHANGED <<objects, refs>>
          ELSE IF found = "missing"
          THEN /\ last' = Outcome("merge", r, <<branch>>, "FileNotFoundError", "")
               /\ UNCHANGED <<objects, refs>>
          ELSE IF found = "found"
          THEN /\ refs' = [refs EXCEPT ![r] = update_ref(@, head_ref(r), target_oid)]
               /\ last' = Outcome("merge", r, <<branch>>, "", "Fast-forwarded")
               /\ UNCHANGED objects
          ELSE /\ CanStore(objects[r], commit_obj)
               /\ objects' = [objects EXCEPT ![r] = write_commit(@, commit_obj)]
               /\ refs' = [refs EXCEPT ![r] = update_ref(@, head_ref(r), oid)]
               /\ last' = Outcome("merge", r, <<branch>>, "", oid)
    /\ UNCHANGED <<workdir, index, index_file, HEAD, dirs, now, stashed>>

\* the numbers n with a file refs/stash/<n>
Slots(rf) == {i \in 0..(MaxStash + 1) : StashRef(i) \in DOMAIN rf}

\* slip: the search for a free number starts at 1
next_slot_from_one(rf) == CHOOSE i \in 1..(MaxStash + 1) :
                             i \notin Slots(rf) /\ \A j \in 1..(i - 1) : j \in Slots(rf)

\* Repo.stash, lines 266-268: the first number with no slot file
next_slot(rf) == CHOOSE i \in 0..(MaxStash + 1) :
                    i \notin Slots(rf) /\ \A j \in 0..(i - 1) : j \in Slots(rf)

\* slip: items[0] instead of items[-1]
last_slot_first(rf) == CHOOSE i \in Slots(rf) : \A j \in Slots(rf) : i <= j

\* Repo.stash_pop, lines 286-289: the highest-numbered slot
last_slot(rf) == CHOOSE i \in Slots(rf) : \A j \in Slots(rf) : j <= i

\* Repo.stash, lines 248-253: path -> blob hash of every working file
stash_tree(w) == [p \in DOMAIN w |-> blob_oid(w[p])]

\* the commit-shaped dict stash builds (repo.py 254-260)
stash_commit(w) ==
    [tree |-> stash_tree(w), parent |-> None, author |-> None,
     message |-> "WIP stash", timestamp |-> now]

\* Repo.stash
stash(r) ==
    /\ Opened(r)
    /\ Cardinality(Slots(refs[r])) < MaxStash
    /\ CanStore(objects[r], stash_commit(workdir[r]))
    /\ LET commit_obj == stash_commit(workdir[r])
           oid == commit_oid(commit_obj)
           i == next_slot(refs[r])
       IN /\ objects' = [objects EXCEPT ![r] =
                           write_commit(write_blobs(@, workdir[r], Files(workdir[r])), commit_obj)]
          /\ refs' = [refs EXCEPT ![r] = Put(@, StashRef(i), oid)]
          /\ stashed' = [stashed EXCEPT ![r] = Append(@, [slot |-> i, tree |-> workdir[r]])]
          /\ last' = Outcome("stash", r, <<i>>, "", oid)
    /\ UNCHANGED <<workdir, index, index_file, HEAD, dirs, now>>

NotSlot(e, n) == e.slot # n

\* the paths of a tree at which writing the tree's blobs changes the working
\* files wd: the file is absent or holds other bytes
Rewritten(wd, store, tree) ==
    {p \in DOMAIN tree : p \notin DOMAIN wd \/ wd[p] # read_blob(store, tree[p])}

\* Repo.stash_pop
stash_pop(r) ==
    /\ Opened(r)
    /\ IF Slots(refs[r]) = {}
       THEN /\ last' = Outcome("stash_pop", r, <<>>, "", "No stash entries.")
            /\ UNCHANGED <<workdir, refs, stashed>>
       ELSE LET n == last_slot(refs[r])
                oid == refs[r][StashRef(n)]
                store == objects[r]
            IN IF oid \notin DOMAIN store
               THEN /\ last' = Outcome("stash_pop", r, <<n>>, "FileNotFoundError", "")
                    /\ UNCHANGED <<workdir, refs, stashed>>
               ELSE LET tree == get(read_commit(store, oid), "tree")
                    IN /\ workdir' = [workdir EXCEPT ![r] =
                                        write_tree(@, store, tree, TreePaths(tree))]
                       /\ IF AllBlobs(store, tree)
                          THEN /\ refs' = [refs EXCEPT ![r] = Del(@, StashRef(n))]
                               /\ stashed' = [stashed EXCEPT ![r] = SelectSeq(@, LAMBDA e : NotSlot(e, n))]
                               /\ last' = [Outcome("stash_pop", r, <<n>>, "", "Applied stash")
                                            EXCEPT !.changed = Rewritten(workdir[r], store, tree)]
                          ELSE /\ UNCHANGED <<refs, stashed>>
                               /\ last' = Outcome("stash_pop", r, <<n>>, "FileNotFoundError", "")
    /\ UNCHANGED <<index, index_file, objects, HEAD, dirs, now>>

\* refs/remotes/<name> is a directory: line 335 of fetch made it, or it
\* holds a tracking ref under heads/
is_dir(rf, ds, path) ==
    \E n \in RemoteNames :
        /\ path = RemoteFile(n)
        /\ \/ RemoteDir(n) \in ds
           \/ \E b \in BranchNames : TrackingRef(n, b) \in DOMAIN rf

\* Path.read_text() on refs/remotes/<name> after the exists() test of fetch
\* (317-318) and push (343-344): the exception raised, "" when the url is read
read_url_exc(rf, ds, path) ==
    IF path \in DOMAIN rf THEN ""
    ELSE IF is_dir(rf, ds, path) THEN "IsADirectoryError"
    ELSE "FileNotFoundError"

\* Repo.remote_add: refs/remotes/<name> becomes a regular file holding the url
remote_add(r, name, url) ==
    /\ Opened(r)
    /\ IF is_dir(refs[r], dirs[r], RemoteFile(name))
       THEN /\ last' = Outcome("remote_add", r, <<name, url>>, "IsADirectoryError", "")
            /\ UNCHANGED refs
       ELSE /\ refs' = [refs EXCEPT ![r] = Put(@, RemoteFile(name), url)]
            /\ last' = Outcome("remote_add", r, <<name, url>>, "", "")
    /\ UNCHANGED <<workdir, index, index_file, objects, HEAD, dirs, now, stashed>>

\* slip: the loop skips every object
copy_objects_none(dst, src) == dst

\* the copy loops of fetch (328-331) and push (350-354): objects of src that
\* dst lacks are written, objects dst has are left as they are
copy_objects(dst, src) ==
    [o \in DOMAIN dst \cup DOMAIN src |-> IF o \in DOMAIN dst THEN dst[o] ELSE src[o]]

\* Path.mkdir(parents=True, exist_ok=True) raises FileExistsError when the
\* path is a regular file
mkdir_raises(rf, path) == path \in DOMAIN rf

\* fetch lines 333-338, reached when refs/remotes/<remote> is no regular
\* file: line 335 makes it a directory.  Each file of the remote's refs/heads
\* is then written to refs/remotes/<remote>/heads/<name>.  Listing a
\* refs/heads directory the remote does not have raises FileNotFoundError
\* (line 336).  No line makes the heads directory, so unless it is there
\* already (it holds a tracking ref) the first write raises FileNotFoundError
\* and no ref is written; with no head at the remote the loop body never runs.
mirror_heads(rf, ds, remote, src_rf, src_dirs) ==
    LET bs == {b \in BranchNames : HeadsRef(b) \in DOMAIN src_rf}
        ts == {TrackingRef(remote, b) : b \in bs}
        heads_dir == \E b \in BranchNames : TrackingRef(remote, b) \in DOMAIN rf
        made == ds \cup {RemoteDir(remote)}
    IN IF HeadsDir \notin src_dirs
       THEN [exc |-> "FileNotFoundError", refs |-> rf, dirs |-> made]
       ELSE IF bs = {} THEN [exc |-> "", refs |-> rf, dirs |-> made]
       ELSE IF ~heads_dir THEN [exc |-> "FileNotFoundError", refs |-> rf, dirs |-> made]
       ELSE [exc |-> "",
             refs |-> [x \in DOMAIN rf \cup ts |->
                         IF x \in ts
                         THEN src_rf[HeadsRef(CHOOSE b \in bs : TrackingRef(remote, b) = x)]
                         ELSE rf[x]],
             dirs |-> made]

\* slip: an unsupported scheme is passed over in silence
fetch_effect_silent(r, remote) ==
    LET rem == RemoteFile(remote)
        url == refs[r][rem]
        q == RepoAt(url)
        same == [exc |-> "", objects |-> objects[r], refs |-> refs[r], dirs |-> dirs[r]]
        mirrored == mirror_heads(refs[r], dirs[r], remote, refs[q], dirs[q])
        copied == copy_objects(objects[r], objects[q])
    IN IF rem \notin DOMAIN refs[r]
       THEN [same EXCEPT !.exc = read_url_exc(refs[r], dirs[r], rem)]
       ELSE IF ~startswith_file(url) THEN same
       ELSE IF ".sid" \notin dirs[q] THEN [same EXCEPT !.exc = "FileNotFoundError"]
       ELSE IF ".sid/objects" \notin dirs[q] THEN [same EXCEPT !.exc = "FileNotFoundError"]
       ELSE IF mkdir_raises(refs[r], rem)
            THEN [same EXCEPT !.exc = "FileExistsError", !.objects = copied]
       ELSE [exc |-> mirrored.exc, objects |-> copied,
             refs |-> mirrored.refs, dirs |-> mirrored.dirs]

\* Repo.fetch: the exception it raises ("" when it returns) and the local
\* object store and ref files it leaves
fetch_effect(r, remote) ==
    LET rem == RemoteFile(remote)
        url == refs[r][rem]
        q == RepoAt(url)
        same == [exc |-> "", objects |-> objects[r], refs |-> refs[r], dirs |-> dirs[r]]
        mirrored == mirror_heads(refs[r], dirs[r], remote, refs[q], dirs[q])
        copied == copy_objects(objects[r], objects[q])
    IN IF rem \notin DOMAIN refs[r]
       THEN [same EXCEPT !.exc = read_url_exc(refs[r], dirs[r], rem)]
       ELSE IF ~startswith_file(url) THEN [same EXCEPT !.exc = "RuntimeError"]
       ELSE IF ".sid" \notin dirs[q] THEN [same EXCEPT !.exc = "FileNotFoundError"]
       ELSE IF ".sid/objects" \notin dirs[q] THEN [same EXCEPT !.exc = "FileNotFoundError"]
       ELSE IF mkdir_raises(refs[r], rem)
            THEN [same EXCEPT !.exc = "FileExistsError", !.objects = copied]
       ELSE [exc |-> mirrored.exc, objects |-> copied,
             refs |-> mirrored.refs, dirs |-> mirrored.dirs]

\* Repo.fetch
fetch(r, remote) ==
    /\ Opened(r)
    /\ LET e == fetch_effect(r, remote)
       IN /\ objects' = [objects EXCEPT ![r] = e.objects]
          /\ refs' = [refs EXCEPT ![r] = e.refs]
          /\ dirs' = [dirs EXCEPT ![r] = e.dirs]
          /\ last' = Outcome("fetch", r, <<remote>>, e.exc,
                             IF e.exc = "" THEN "Fetched" ELSE "")
    /\ UNCHANGED <<workdir, index, index_file, HEAD, now, stashed>>

\* Repo.push
push(r, remote, branch) ==
    /\ Opened(r)
    /\ LET rem == RemoteFile(remote)
           url == refs[r][rem]
           q == RepoAt(url)
           src_ref == HeadsRef(branch)
       IN IF rem \notin DOMAIN refs[r]
          THEN /\ last' = Outcome("push", r, <<remote, branch>>,
                                   read_url_exc(refs[r], dirs[r], rem), "")
               /\ UNCHANGED <<objects, refs, dirs>>
          ELSE IF ~startswith_file(url)
          THEN /\ last' = Outcome("push", r, <<remote, branch>>, "RuntimeError", "")
               /\ UNCHANGED <<objects, refs, dirs>>
          ELSE /\ dirs' = [dirs EXCEPT ![q] = @ \cup {".sid"} \cup
                              (IF DOMAIN objects[r] = {} THEN {} ELSE {".sid/objects"}) \cup
                              (IF src_ref \in DOMAIN refs[r] THEN {HeadsDir} ELSE {})]
               /\ objects' = [objects EXCEPT ![q] = copy_objects(@, objects[r])]
               /\ IF src_ref \notin DOMAIN refs[r]
                  THEN /\ last' = Outcome("push", r, <<remote, branch>>, "FileNotFoundError", "")
                       /\ UNCHANGED refs
                  ELSE /\ refs' = [refs EXCEPT ![q] = Put(@, src_ref, refs[r][src_ref])]
                       /\ last' = Outcome("push", r, <<remote, branch>>, "", "Pushed")
    /\ UNCHANGED <<workdir, index, index_file, HEAD, now, stashed>>

\* the commit dict pull builds (repo.py 384-391)
pull_commit(r, remote, branch, head, remote_oid) ==
    [tree |-> index[r], parent |-> head, parent2 |-> remote_oid, author |-> None,
     message |-> "Merge remote " \o remote \o "/" \o branch,
     timestamp |-> now]

\* Repo.pull
pull(r, remote, branch) ==
    /\ Opened(r)
    /\ dirs' = [dirs EXCEPT ![r] = fetch_effect(r, remote).dirs]
    /\ LET e == fetch_effect(r, remote)
           remote_head == TrackingRef(remote, branch)
           remote_oid == read_ref(e.refs, remote_head)
           head == read_ref(e.refs, head_ref(r))
           found == walk_merge(e.objects, remote_oid, head)
           commit_obj == pull_commit(r, remote, branch, head, remote_oid)
           oid == commit_oid(commit_obj)
       IN IF e.exc # ""
          THEN /\ objects' = [objects EXCEPT ![r] = e.objects]
               /\ refs' = [refs EXCEPT ![r] = e.refs]
               /\ last' = Outcome("pull", r, <<remote, branch>>, e.exc, "")
          ELSE IF remote_head \notin DOMAIN e.refs
          THEN /\ objects' = [objects EXCEPT ![r] = e.objects]
               /\ refs' = [refs EXCEPT ![r] = e.refs]
               /\ last' = Outcome("pull", r, <<remote, branch>>, "FileNotFoundError", "")
          ELSE IF ~Truthy(remote_oid)
          THEN /\ objects' = [objects EXCEPT ![r] = e.objects]
               /\ refs' = [refs EXCEPT ![r] = e.refs]
               /\ last' = Outcome("pull", r, <<remote, branch>>, "", "")
          ELSE IF found = "missing"
          THEN /\ objects' = [objects EXCEPT ![r] = e.objects]
               /\ refs' = [refs EXCEPT ![r] = e.refs]
               /\ last' = Outcome("pull", r, <<remote, branch>>, "FileNotFoundError", "")
          ELSE IF found = "found"
          THEN /\ objects' = [objects EXCEPT ![r] = e.objects]
               /\ refs' = [refs EXCEPT ![r] = update_ref(e.refs, head_ref(r), remote_oid)]
               /\ last' = Outcome("pull", r, <<remote, branch>>, "", "Fast-forwarded to remote")
          ELSE /\ CanStore(e.objects, commit_obj)
               /\ objects' = [objects EXCEPT ![r] = write_commit(e.objects, commit_obj)]
               /\ refs' = [refs EXCEPT ![r] = update_ref(e.refs, head_ref(r), oid)]
               /\ last' = Outcome("pull", r, <<remote, branch>>, "", oid)
    /\ UNCHANGED <<workdir, index, index_file, HEAD, now, stashed>>

Init ==
    /\ workdir = [r \in Repos |-> EmptyMap]
    /\ index = [r \in Repos |-> EmptyMap]
    /\ index_file = [r \in Repos |-> [exists |-> FALSE, data |-> EmptyMap]]
    /\ objects = [r \in Repos |-> EmptyMap]
    /\ HEAD = [r \in Repos |-> IF r = "A" THEN "refs/heads/master" ELSE NoFile]
    /\ refs = [r \in Repos |-> EmptyMap]
    /\ dirs = [r \in Repos |-> IF r = "A" THEN {".sid", ".sid/objects", HeadsDir} ELSE {}]
    /\ now = 0
    /\ stashed = [r \in Repos |-> <<>>]
    /\ last = Outcome("Repo", "A", <<>>, "", "")

\* The commit graph of one repository with a trunk and a feature branch: one
\* working file is written and staged, commits are made, either branch is
\* checked out, dev is created from the current commit (checkout -b dev),
\* master is deleted (without force), dev is merged into the current branch.
\* Every call happens within one second.
NextGraph ==
    \/ WriteFile("A", "a.txt", "1")
    \/ add("A", "a.txt")
    \/ \E m \in Messages, a \in Authors : commit("A", m, a)
    \/ \E b \in BranchNames : checkout("A", b, FALSE)
    \/ checkout("A", "dev", TRUE)
    \/ delete_branch("A", "master", FALSE)
    \/ merge("A", "dev")

SpecGraph == Init /\ [][NextGraph]_vars

\* Commits of one repository while the clock runs: a working file is
\* written and staged, commits are made, branches are checked out and created.
NextCommit ==
    \/ WriteFile("A", "a.txt", "1")
    \/ add("A", "a.txt")
    \/ \E m \in Messages, a \in Authors : commit("A", m, a)
    \/ \E b \in BranchNames : checkout("A", b, FALSE)
    \/ checkout("A", "dev", TRUE)
    \/ Tick

SpecCommit == Init /\ [][NextCommit]_vars

\* Checkout in one repository: two working files are written, one of them
\* is staged, commits are made, and branches are checked out with and
\* without creation.
NextCheckout ==
    \/ \E p \in Paths : WriteFile("A", p, "1")
    \/ add("A", "a.txt")
    \/ \E m \in Messages, a \in Authors : commit("A", m, a)
    \/ \E b \in BranchNames, create \in BOOLEAN : checkout("A", b, create)

SpecCheckout == Init /\ [][NextCheckout]_vars

\* Commits that may be interrupted: one working file is written and staged,
\* commits run to the end or die after their first write, dev is created
\* and master is checked out again.
NextCrash ==
    \/ WriteFile("A", "a.txt", "1")
    \/ add("A", "a.txt")
    \/ \E m \in Messages, a \in Authors : commit("A", m, a)
    \/ \E m \in Messages, a \in Authors : commit_crash("A", m, a)
    \/ checkout("A", "dev", TRUE)
    \/ checkout("A", "master", FALSE)

SpecCrash == Init /\ [][NextCrash]_vars

\* Branches of one repository: commits (of an empty
\* index), branch creation, checkout, merge, deletion with and without force.
NextBranch ==
    \/ \E m \in Messages, a \in Authors : commit("A", m, a)
    \/ \E b \in BranchNames : create_branch("A", b)
    \/ \E b \in BranchNames : checkout("A", b, FALSE)
    \/ \E b \in BranchNames : merge("A", b)
    \/ \E b \in BranchNames, force \in BOOLEAN : delete_branch("A", b, force)

SpecBranch == Init /\ [][NextBranch]_vars

\* Synchronisation of repository A with a remote: B is constructed, both
\* repositories commit, A registers the remote under a
\* file:// URL (of B or of A itself) or an http:// URL, and fetches, pushes
\* and pulls.
NextSync ==
    \/ Repo("B")
    \/ \E r \in Repos, m \in Messages, a \in Authors : commit(r, m, a)
    \/ \E u \in Urls : remote_add("A", "origin", u)
    \/ fetch("A", "origin")
    \/ \E b \in BranchNames : push("A", "origin", b)
    \/ \E b \in BranchNames : pull("A", "origin", b)

SpecSync == Init /\ [][NextSync]_vars

\* Stashing in one repository: two working files are written and
\* overwritten, one of them is removed, the working tree is stashed and
\* popped.
NextStash ==
    \/ \E p \in Paths, d \in Contents : WriteFile("A", p, d)
    \/ DeleteFile("A", "b.txt")
    \/ stash("A")
    \/ stash_pop("A")

SpecStash == Init /\ [][NextStash]_vars

\* Status of one repository: a working file is written and overwritten,
\* staged, unstaged and committed, and status is asked.
NextStatus ==
    \/ \E d \in Contents : WriteFile("A", "a.txt", d)
    \/ \E p \in {"a.txt", "."} : add("A", p)
    \/ reset("A", "a.txt")
    \/ rm("A", "a.txt")
    \/ \E m \in Messages, a \in Authors : commit("A", m, a)
    \/ status("A")

SpecStatus == Init /\ [][NextStatus]_vars

\* The object store of repository A used directly: blobs and commits are
\* written, some blobs holding the very bytes a commit is serialised to.
StoreCommits ==
    {[tree |-> EmptyMap, parent |-> None, author |-> a, message |-> m, timestamp |-> t] :
        a \in Authors, m \in Messages, t \in 0..MaxTime}
StoreBlobs == Contents \cup {dumps(c) : c \in StoreCommits}

\* ObjectStore.write_blob called on the store of r
call_write_blob(r, data) ==
    /\ Opened(r)
    /\ objects' = [objects EXCEPT ![r] = write_blob(@, data)]
    /\ last' = Outcome("write_blob", r, <<data>>, "", blob_oid(data))
    /\ UNCHANGED <<workdir, index, index_file, HEAD, refs, dirs, now, stashed>>

\* ObjectStore.write_commit called on the store of r
call_write_commit(r, c) ==
    /\ Opened(r)
    /\ objects' = [objects EXCEPT ![r] = write_commit(@, c)]
    /\ last' = Outcome("write_commit", r, <<c>>, "", commit_oid(c))
    /\ UNCHANGED <<workdir, index, index_file, HEAD, refs, dirs, now, stashed>>

NextObjects ==
    \/ \E d \in StoreBlobs : call_write_blob("A", d)
    \/ \E c \in StoreCommits : call_write_commit("A", c)

SpecObjects == Init /\ [][NextObjects]_vars

\* The operations that write refs, on repository A with repository B as its
\* remote: commits are made, dev is created, checked out, merged and deleted,
\* the working tree is stashed and popped, and A registers B, fetches,
\* pushes and pulls.
NextRepo ==
    \/ \E m \in Messages, a \in Authors : commit("A", m, a)
    \/ checkout("A", "dev", TRUE)
    \/ checkout("A", "master", FALSE)
    \/ merge("A", "dev")
    \/ delete_branch("A", "dev", TRUE)
    \/ stash("A")
    \/ stash_pop("A")
    \/ remote_add("A", "origin", FileUrl("B"))
    \/ fetch("A", "origin")
    \/ push("A", "origin", "master")
    \/ pull("A", "origin", "master")

SpecRepo == Init /\ [][NextRepo]_vars

\* The operations that write or copy commits, on two repositories with
\* histories of their own: B is constructed, both commit, A creates and
\* checks out dev and merges it, and A registers B, fetches, pushes and
\* pulls.  No ref of A is ever removed.
NextHistory ==
    \/ Repo("B")
    \/ \E r \in Repos, m \in Messages, a \in Authors : commit(r, m, a)
    \/ checkout("A", "dev", TRUE)
    \/ checkout("A", "master", FALSE)
    \/ merge("A", "dev")
    \/ remote_add("A", "origin", FileUrl("B"))
    \/ fetch("A", "origin")
    \/ push("A", "origin", "master")
    \/ pull("A", "origin", "master")

SpecHistory == Init /\ [][NextHistory]_vars

----------------------------------------------------------------------------
(* Vocabulary of the properties *)

RECURSIVE FirstParentChain(_, _)
\* the commits met from t by following parent links only, t included
FirstParentChain(store, t) ==
    IF ~Truthy(t) \/ t \notin DOMAIN store THEN {}
    ELSE {t} \cup FirstParentChain(store, store[t].parent)

\* the last call was op on repository r and returned
Returned(l, op, r) == l.op = op /\ l.repo = r /\ l.exc = ""

----------------------------------------------------------------------------
(* Merge *)

\* C1: fast-forward merge.  Whenever merge(b) is called while the commit H
\* that HEAD resolves to is non-empty and lies on the first-parent chain of
\* the tip T of b (H = T included), the ref HEAD points to holds T afterwards
\* and the object store is unchanged.
C1_FastForward ==
    [][\A b \in BranchNames :
         (/\ last'.op = "merge" /\ last'.repo = "A" /\ last'.args = <<b>>
          /\ HeadsRef(b) \in DOMAIN refs["A"]
          /\ Truthy(head_oid("A"))
          /\ head_oid("A") \in FirstParentChain(objects["A"], read_ref(refs["A"], HeadsRef(b))))
         => /\ last'.exc = ""
            /\ refs'["A"][HEAD["A"]] = refs["A"][HeadsRef(b)]
            /\ HEAD' = HEAD
            /\ objects' = objects]_vars

\* a fast-forward merge has just moved the current branch to a tip that has
\* a parent
C1_Witness ==
    /\ Returned(last, "merge", "A") /\ last.ret = "Fast-forwarded"
    /\ Truthy(objects["A"][head_oid("A")].parent)
    /\ \E b \in BranchNames : HeadsRef(b) # HEAD["A"] /\ last.args = <<b>>

\* the merge call of branch b on repository A is being made
MergeCall(b) == last'.op = "merge" /\ last'.repo = "A" /\ last'.args = <<b>>

\* the tip of b and the HEAD commit before the call diverge: both non-empty,
\* the HEAD commit not on the first-parent chain of the tip
Divergent(b) ==
    /\ HeadsRef(b) \in DOMAIN refs["A"]
    /\ Truthy(read_ref(refs["A"], HeadsRef(b)))
    /\ Truthy(head_oid("A"))
    /\ head_oid("A") \notin FirstParentChain(objects["A"], read_ref(refs["A"], HeadsRef(b)))

\* after the call the ref HEAD points to holds a stored commit with parent H,
\* parent2 T and tree = the index before the call, and nothing else of the
\* store has changed
MergeCommitWritten(b) ==
    LET M == refs'["A"][HEAD["A"]]
    IN /\ last'.exc = "" /\ HEAD' = HEAD
       /\ DOMAIN objects'["A"] = DOMAIN objects["A"] \cup {M}
       /\ \A o \in DOMAIN objects["A"] : objects'["A"][o] = objects["A"][o]
       /\ objects'["A"][M].parent = head_oid("A")
       /\ objects'["A"][M].parent2 = read_ref(refs["A"], HeadsRef(b))
       /\ objects'["A"][M].tree = index["A"]

\* C2 as stated: a merge of two divergent branches writes exactly one new
\* commit object (parent H, parent2 T, tree = index snapshot) and sets the
\* ref HEAD points to to it.
C2_ExactlyOneNewCommit ==
    [][\A b \in BranchNames :
         (MergeCall(b) /\ Divergent(b))
         => /\ MergeCommitWritten(b)
            /\ refs'["A"][HEAD["A"]] \notin DOMAIN objects["A"]]_vars

\* C2 amended: a merge of two divergent branches leaves in the store the
\* merge commit M (parent H, parent2 T, tree = index snapshot), writes no
\* other object (M itself is not written again when an identical merge commit
\* is stored already), and sets the ref HEAD points to to M.
C2_MergeCommit ==
    [][\A b \in BranchNames :
         (MergeCall(b) /\ Divergent(b)) => MergeCommitWritten(b)]_vars

\* a merge has just written a merge commit with two parents and a staged tree
C2_Witness ==
    /\ Returned(last, "merge", "A")
    /\ last.ret = head_oid("A")
    /\ Truthy(objects["A"][last.ret].parent)
    /\ Truthy(objects["A"][last.ret].parent2)
    /\ objects["A"][last.ret].tree # EmptyMap

----------------------------------------------------------------------------
(* Commit *)

CommitCall == last'.op = "commit" /\ last'.repo = "A"

\* C3: commit chain.  Every commit call stores a commit whose parent is the
\* commit HEAD resolved to before the call (None on an unborn branch), and
\* HEAD resolves to the new commit afterwards; the first-parent chain from
\* HEAD is then the new commit followed by the chain as it was, so commits
\* made one after the other are visited newest first.
C3_CommitChain ==
    [][CommitCall =>
         LET H == head_oid("A")
             c == read_ref(refs'["A"], HEAD'["A"])
         IN /\ c = last'.ret /\ c \in DOMAIN objects'["A"]
            /\ objects'["A"][c].parent = H
            /\ c \notin FirstParentChain(objects["A"], H)
            /\ FirstParentChain(objects'["A"], c)
                 = {c} \cup FirstParentChain(objects["A"], H)
            /\ (last.op = "commit" => objects'["A"][c].parent = last.ret)]_vars

\* three commits in a row: HEAD's chain is the third, the second, the first
C3_Witness ==
    /\ Returned(last, "commit", "A")
    /\ LET c3 == head_oid("A")
           c2 == objects["A"][c3].parent
       IN /\ Truthy(c2) /\ Truthy(objects["A"][c2].parent)
          /\ objects["A"][objects["A"][c2].parent].parent = None
          /\ Cardinality(FirstParentChain(objects["A"], c3)) = 3

\* C4: commit always goes through.  The call returns a hash, the commit
\* stored under it has the index snapshot of the start of the call as its
\* tree, the ref HEAD points to holds the returned hash, and the index is
\* empty in memory and on disk.
C4_CommitAlways ==
    [][CommitCall =>
         /\ last'.exc = ""
         /\ last'.ret \in DOMAIN objects'["A"]
         /\ objects'["A"][last'.ret].tree = index["A"]
         /\ refs'["A"][HEAD["A"]] = last'.ret /\ HEAD' = HEAD
         /\ index'["A"] = EmptyMap
         /\ index_file'["A"] = [exists |-> TRUE, data |-> EmptyMap]]_vars

\* a commit has just been made with an empty index on top of a commit that
\* has the same (empty) tree
C4_Witness ==
    /\ Returned(last, "commit", "A")
    /\ objects["A"][last.ret].tree = EmptyMap
    /\ Truthy(objects["A"][last.ret].parent)
    /\ objects["A"][objects["A"][last.ret].parent].tree = EmptyMap

----------------------------------------------------------------------------
(* Branch delete *)

RECURSIVE Ancestors(_, _)
\* the commits reachable from o over parent and parent2 links, o included
Ancestors(store, o) ==
    IF ~Truthy(o) \/ o \notin DOMAIN store THEN {}
    ELSE {o} \cup Ancestors(store, store[o].parent)
             \cup Ancestors(store, get(store[o], "parent2"))

\* C5: branch-delete safety.  delete_branch(b, force=False) removes
\* refs/heads/b only if the tip of b is empty or reachable from the commit
\* HEAD resolves to; when the tip is a commit not reachable from HEAD (HEAD
\* unborn included) the call fails and the ref keeps its value.
C5_DeleteSafety ==
    [][\A b \in BranchNames :
         (/\ last'.op = "delete_branch" /\ last'.repo = "A" /\ last'.args = <<b, FALSE>>
          /\ HeadsRef(b) \in DOMAIN refs["A"])
         => LET tip == read_ref(refs["A"], HeadsRef(b))
                reach == Ancestors(objects["A"], head_oid("A"))
            IN /\ (HeadsRef(b) \notin DOMAIN refs'["A"]) => (~Truthy(tip) \/ tip \in reach)
               /\ (Truthy(tip) /\ tip \notin reach)
                    => (last'.exc # "" /\ refs' = refs)]_vars

----------------------------------------------------------------------------
(* Remote synchronisation *)

\* before the call, remote n of A is registered under a file:// URL that
\* addresses the constructed repository q
RemoteIs(n, q) ==
    /\ RemoteFile(n) \in DOMAIN refs["A"]
    /\ refs["A"][RemoteFile(n)] = FileUrl(q)
    /\ Opened(q) /\ {".sid", ".sid/objects"} \subseteq dirs[q]

\* C6: fetch from a registered file:// remote that addresses an existing
\* repository completes, and afterwards every object of the remote is present
\* locally and refs/remotes/<remote>/heads/<b> equals the remote's
\* refs/heads/<b> for every branch b of the remote.
C6_FetchMirrors ==
    [][\A n \in RemoteNames, q \in Repos :
         (/\ last'.op = "fetch" /\ last'.repo = "A" /\ last'.args = <<n>>
          /\ RemoteIs(n, q))
         => /\ last'.exc = ""
            /\ DOMAIN objects[q] \subseteq DOMAIN objects'["A"]
            /\ \A b \in BranchNames :
                 HeadsRef(b) \in DOMAIN refs[q]
                 => /\ TrackingRef(n, b) \in DOMAIN refs'["A"]
                    /\ refs'["A"][TrackingRef(n, b)] = refs[q][HeadsRef(b)]]_vars

\* C7: pull(remote, b) from a registered file:// remote whose repository has
\* branch b with tip R completes like fetch followed by the merge policy on R:
\* if the HEAD commit H is on R's first-parent chain the current branch ref
\* becomes R and only fetched objects are added; otherwise it becomes a stored
\* commit with parent H, parent2 R and tree = the index snapshot.
C7_PullIsFetchThenMerge ==
    [][\A n \in RemoteNames, q \in Repos, b \in BranchNames :
         (/\ last'.op = "pull" /\ last'.repo = "A" /\ last'.args = <<n, b>>
          /\ RemoteIs(n, q)
          /\ HeadsRef(b) \in DOMAIN refs[q]
          /\ Truthy(read_ref(refs[q], HeadsRef(b))))
         => LET R == read_ref(refs[q], HeadsRef(b))
                H == head_oid("A")
                fetched == copy_objects(objects["A"], objects[q])
                M == refs'["A"][HEAD["A"]]
            IN /\ last'.exc = ""
               /\ refs'["A"][TrackingRef(n, b)] = R
               /\ IF H \in FirstParentChain(fetched, R)
                  THEN M = R /\ objects'["A"] = fetched
                  ELSE /\ M \in DOMAIN objects'["A"]
                       /\ objects'["A"][M].parent = H
                       /\ objects'["A"][M].parent2 = R
                       /\ objects'["A"][M].tree = index["A"]]_vars

\* C8: push(remote, b) of an existing local branch to a file:// remote
\* completes; afterwards the remote's refs/heads/<b> equals the local one,
\* every local object is stored at the remote, and every object the remote
\* held before is stored there unchanged.
C8_PushOverwrites ==
    [][\A n \in RemoteNames, q \in Repos, b \in BranchNames :
         (/\ last'.op = "push" /\ last'.repo = "A" /\ last'.args = <<n, b>>
          /\ RemoteFile(n) \in DOMAIN refs["A"]
          /\ refs["A"][RemoteFile(n)] = FileUrl(q)
          /\ HeadsRef(b) \in DOMAIN refs["A"])
         => /\ last'.exc = ""
            /\ HeadsRef(b) \in DOMAIN refs'[q]
            /\ refs'[q][HeadsRef(b)] = refs["A"][HeadsRef(b)]
            /\ refs'["A"][HeadsRef(b)] = refs'[q][HeadsRef(b)]
            /\ \A o \in DOMAIN objects'["A"] :
                 o \in DOMAIN objects'[q] /\ objects'[q][o] = objects'["A"][o]
            /\ \A o \in DOMAIN objects[q] :
                 o \in DOMAIN objects'[q] /\ objects'[q][o] = objects[q][o]]_vars

\* a push has just replaced the tip of B's master by a commit of A that does
\* not have B's own commit in its history: B still stores a commit of its own
\* that its master no longer reaches
C8_Witness ==
    /\ Returned(last, "push", "A") /\ last.args = <<"origin", "master">>
    /\ refs["A"][RemoteFile("origin")] = FileUrl("B")
    /\ Truthy(refs["B"][HeadsRef("master")])
    /\ refs["B"][HeadsRef("master")] = refs["A"][HeadsRef("master")]
    /\ \E d \in Commits(objects["B"]) :
         /\ d \notin DOMAIN objects["A"]
         /\ d \notin Ancestors(objects["B"], refs["B"][HeadsRef("master")])

----------------------------------------------------------------------------
(* Stash *)

\* C9: stash round trip.  When stash pop is called, take the most recent
\* save that has not been popped, with working tree W and slot n: after the
\* pop every path of W holds the bytes it had in W, whatever was done to the
\* working files in between, and refs/stash/<n> no longer exists.
C9_StashRoundTrip ==
    [][(/\ last'.op = "stash_pop" /\ last'.repo = "A"
        /\ stashed["A"] # <<>>)
       => LET saved == stashed["A"][Len(stashed["A"])]
          IN /\ last'.exc = ""
             /\ \A p \in DOMAIN saved.tree :
                  p \in DOMAIN workdir'["A"] /\ workdir'["A"][p] = saved.tree[p]
             /\ StashRef(saved.slot) \notin DOMAIN refs'["A"]
             /\ Slots(refs'["A"]) = Slots(refs["A"]) \ {saved.slot}]_vars

\* a pop has just brought back both files of the save it applied, each of
\* them overwritten or removed since that save, and an older save is still
\* stashed
C9_Witness ==
    /\ last.op = "stash_pop" /\ last.ret = "Applied stash"
    /\ last.args = <<1>>
    /\ last.changed = Paths
    /\ Slots(refs["A"]) = {0}
    /\ "b.txt" \notin DOMAIN stashed["A"][1].tree

----------------------------------------------------------------------------
(* Status *)

\* C10: modified after commit.  When status is asked while the index is
\* empty, the HEAD commit records a path and the working file at that path
\* holds other bytes than the committed blob, status lists the path under
\* 'Modified (unstaged)'.
C10_ModifiedAfterCommit ==
    \A p \in Paths :
      (/\ last.op = "status" /\ last.repo = "A"
       /\ index["A"] = EmptyMap
       /\ Truthy(head_oid("A"))
       /\ p \in DOMAIN objects["A"][head_oid("A")].tree
       /\ p \in DOMAIN workdir["A"]
       /\ workdir["A"][p] # read_blob(objects["A"], objects["A"][head_oid("A")].tree[p]))
      => p \in last.changed

----------------------------------------------------------------------------
(* Errors *)

\* C11: missing-path errors.  When add, rm or reset is called with a path
\* that is neither a working file nor an index entry, the call fails with an
\* error and the index (in memory and on disk) and the working files are
\* left as they were.
C11_MissingPath ==
    [][\A p \in Paths :
         (/\ last'.op \in {"add", "rm", "reset"} /\ last'.repo = "A"
          /\ last'.args = <<p>>
          /\ p \notin DOMAIN workdir["A"]
          /\ p \notin DOMAIN index["A"])
         => /\ last'.exc # ""
            /\ index' = index /\ index_file' = index_file
            /\ workdir' = workdir]_vars

\* C12: unsupported scheme.  When fetch, push or pull is called on a remote
\* registered under a URL that is not a file:// URL, the call fails with an
\* error and no object store, ref file, index, HEAD, directory or working
\* file of any repository is changed.
C12_UnsupportedScheme ==
    [][\A n \in RemoteNames :
         (/\ last'.op \in {"fetch", "push", "pull"} /\ last'.repo = "A"
          /\ last'.args[1] = n
          /\ RemoteFile(n) \in DOMAIN refs["A"]
          /\ refs["A"][RemoteFile(n)] \notin {FileUrl(q) : q \in Repos})
         => /\ last'.exc # ""
            /\ objects' = objects /\ refs' = refs
            /\ index' = index /\ index_file' = index_file
            /\ HEAD' = HEAD /\ dirs' = dirs /\ workdir' = workdir]_vars

\* a pull from the http remote has just failed in a repository that holds a
\* commit, while repository B exists and holds a commit too
C12_Witness ==
    /\ last.op = "pull" /\ last.exc = "RuntimeError"
    /\ refs["A"][RemoteFile("origin")] = "http://host/B"
    /\ Commits(objects["A"]) # {}
    /\ Opened("B") /\ Commits(objects["B"]) # {}

----------------------------------------------------------------------------
(* Invariants of the stores *)

\* the files that hold a commit hash: branch heads, remote-tracking heads
\* and stash slots
HashRefs ==
    {HeadsRef(b) : b \in BranchNames}
    \cup {TrackingRef(n, b) : n \in RemoteNames, b \in BranchNames}
    \cup {StashRef(i) : i \in 0..(MaxStash + 1)}

\* C13: ref integrity.  In every reachable state, in every repository, a
\* branch head, remote-tracking head or stash slot that is not empty holds
\* the hash of an object in that repository's object store.
C13_RefIntegrity ==
    \A r \in Repos : \A x \in DOMAIN refs[r] \cap HashRefs :
        refs[r][x] # "" => refs[r][x] \in DOMAIN objects[r]

\* a push has just written A's master to B while A's dev holds another
\* commit and a stash slot is in use
C13_Witness ==
    /\ Returned(last, "push", "A")
    /\ Truthy(read_ref(refs["B"], HeadsRef("master")))
    /\ Truthy(read_ref(refs["A"], HeadsRef("dev")))
    /\ read_ref(refs["A"], HeadsRef("dev")) # read_ref(refs["A"], HeadsRef("master"))
    /\ Slots(refs["A"]) # {}

\* the non-empty parent and parent2 of the commit stored under c
Links(store, c) ==
    {v \in {store[c].parent, get(store[c], "parent2")} : Truthy(v)}

RECURSIVE Descend(_, _, _)
\* the hashes met within k steps along parent and parent2 links from set S
Descend(store, S, k) ==
    IF k = 0 THEN S
    ELSE Descend(store,
                 S \cup UNION {Links(store, c) : c \in S \cap Commits(store)},
                 k - 1)

\* no commit of the store is met again by following links from its parents
Acyclic(store) ==
    \A c \in Commits(store) :
        c \notin Descend(store, Links(store, c), Cardinality(DOMAIN store))

\* the commits a step adds to the store of r
NewCommits(r) == Commits(objects'[r]) \ DOMAIN objects[r]

\* C14 as stated: acyclic history.  After every step the commit graph of
\* every store is acyclic, and every non-empty parent or parent2 of a commit
\* the step added to a store was in that store before the step.
C14_ParentsEarlier ==
    [][\A r \in Repos :
         /\ Acyclic(objects'[r])
         /\ \A c \in NewCommits(r) :
              Links(objects'[r], c) \subseteq DOMAIN objects[r]]_vars

\* the step ran a copy loop that brought commit c into the store of r from
\* the store of q: the loop of push (350-354) writes to the remote of the
\* caller, the loop of fetch (328-331), which pull runs too, to the caller's
CopiedFrom(q, r, c) ==
    /\ q # r
    /\ c \in DOMAIN objects[q]
    /\ \/ last'.op = "push" /\ last'.repo = q
       \/ last'.op \in {"fetch", "pull"} /\ last'.repo = r

\* C14 amended: acyclic history.  After every step the commit graph of every
\* store is acyclic and every non-empty parent or parent2 of a stored commit
\* is in the same store; it was there before the step when commit or merge
\* wrote the commit, while the copy loop of a push, a fetch or a pull
\* may bring a commit and its parents into a store in one call, and then the
\* parents were in the store the commit was copied from.
C14_ParentsStored ==
    [][\A r \in Repos :
         /\ Acyclic(objects'[r])
         /\ \A c \in Commits(objects'[r]) :
              Links(objects'[r], c) \subseteq DOMAIN objects'[r]
         /\ \A c \in NewCommits(r) :
              \/ Links(objects'[r], c) \subseteq DOMAIN objects[r]
              \/ \E q \in Repos :
                    /\ CopiedFrom(q, r, c)
                    /\ Links(objects'[r], c) \subseteq DOMAIN objects[q]]_vars

\* a fetch has just copied a commit and its parent from B into the store of
\* A, which has written no commit of its own: none of its refs holds a hash
C14_Witness ==
    /\ last.op = "fetch" /\ last.repo = "A"
    /\ \A x \in DOMAIN refs["A"] \cap HashRefs : refs["A"][x] = ""
    /\ \E c \in Commits(objects["A"]) :
          /\ Truthy(objects["A"][c].parent)
          /\ objects["A"][c].parent \in Commits(objects["A"])
          /\ c \in DOMAIN objects["B"]

----------------------------------------------------------------------------
(* Content addressing *)

StoreCall == last'.op \in {"write_blob", "write_commit"} /\ last'.repo = "A"

\* C15: content addressing.  write_blob and write_commit store the content
\* under the hash they return; a write whose hash is stored already leaves
\* the store as it was, a write repeating the previous one returns the same
\* hash, otherwise exactly one object is added; and the hash of a commit is
\* not the hash of the blob of the bytes the commit is serialised to, so a
\* blob and a commit written with the same bytes are both stored.
C15_ContentAddressing ==
    [][StoreCall =>
         LET store == objects["A"]
             after == objects'["A"]
             oid == last'.ret
         IN /\ last'.op = "write_commit"
                 => oid # blob_oid(dumps(last'.args[1]))
            /\ last'.op = "write_blob"
                 => \A c \in StoreCommits :
                       last'.args[1] = dumps(c) => oid # commit_oid(c)
            /\ oid \in DOMAIN after /\ after[oid] = last'.args[1]
            /\ oid \in DOMAIN store => after = store
            /\ oid \notin DOMAIN store => DOMAIN after = DOMAIN store \cup {oid}
            /\ \A o \in DOMAIN store : after[o] = store[o]
            /\ (last.op = last'.op /\ last.args = last'.args)
                 => (oid = last.ret /\ after = store)
            /\ (/\ last.op = "write_blob" /\ last'.op = "write_commit"
                /\ last.args[1] = dumps(last'.args[1]))
                 => (oid # last.ret /\ {oid, last.ret} \subseteq DOMAIN after)
            /\ (/\ last.op = "write_commit" /\ last'.op = "write_blob"
                /\ last'.args[1] = dumps(last.args[1]))
                 => (oid # last.ret /\ {oid, last.ret} \subseteq DOMAIN after)]_vars

\* a commit has just been written to a store that holds a blob with the
\* bytes the commit is serialised to; both are stored, under two hashes
C15_Witness ==
    /\ last.op = "write_commit"
    /\ \E b \in DOMAIN objects["A"] \ {last.ret} :
         /\ b = blob_oid(dumps(last.args[1]))
         /\ objects["A"][b] = dumps(last.args[1])
    /\ last.ret \in DOMAIN objects["A"]

----------------------------------------------------------------------------
(* Object copies *)

\* C16: sync dedup.  A fetch from a registered file:// remote of an existing
\* repository leaves the local store holding exactly its own objects,
\* unaltered, and the objects only the remote had, each with the remote's
\* content; so a fetch when every remote object is held locally - a second
\* fetch from an unchanged remote in particular - copies nothing.
C16_FetchDedup ==
    [][\A n \in RemoteNames, q \in Repos :
         (/\ last'.op = "fetch" /\ last'.repo = "A" /\ last'.args = <<n>>
          /\ RemoteIs(n, q))
         => LET mine == objects["A"]
                theirs == objects[q]
                after == objects'["A"]
            IN /\ DOMAIN after = DOMAIN mine \cup DOMAIN theirs
               /\ \A o \in DOMAIN mine : after[o] = mine[o]
               /\ \A o \in DOMAIN theirs \ DOMAIN mine : after[o] = theirs[o]
               /\ DOMAIN theirs \subseteq DOMAIN mine => after = mine
               /\ (last.op = "fetch" /\ last.args = <<n>>) => after = mine]_vars

\* a fetch from B has just run in a repository that never committed: all it
\* stores, two commits at least, was copied from B
C16_Witness ==
    /\ last.op = "fetch"
    /\ RemoteFile("origin") \in DOMAIN refs["A"]
    /\ refs["A"][RemoteFile("origin")] = FileUrl("B")
    /\ \A b \in BranchNames : HeadsRef(b) \notin DOMAIN refs["A"]
    /\ Cardinality(DOMAIN objects["A"]) >= 2
    /\ DOMAIN objects["A"] = DOMAIN objects["B"]

\* C17: append-only object store.  No step removes an object from the store
\* of any repository or changes what is stored under a hash.
C17_AppendOnly ==
    [][\A r \in Repos : \A o \in DOMAIN objects[r] :
         o \in DOMAIN objects'[r] /\ objects'[r][o] = objects[r][o]]_vars

\* the last stash has just been popped: A still stores the stash commit,
\* which no slot names any more, next to two more commits, and B stores what
\* a push copied
C17_Witness ==
    /\ last.op = "stash_pop" /\ last.ret = "Applied stash"
    /\ Slots(refs["A"]) = {}
    /\ HeadsRef("dev") \notin DOMAIN refs["A"]
    /\ \E c \in Commits(objects["A"]) : objects["A"][c].message = "WIP stash"
    /\ Cardinality(Commits(objects["A"])) = 3
    /\ objects["B"] # EmptyMap

----------------------------------------------------------------------------
(* Checkout *)

\* C18: checkout.  checkout(b, create) returns with HEAD naming
\* refs/heads/b; with create set the ref of b exists and resolves to what
\* HEAD resolved to before the call; and when the tip of b is a commit the
\* working files are exactly the paths of its tree, each with the bytes of
\* the blob the tree names.
C18_Checkout ==
    [][\A b \in BranchNames, create \in BOOLEAN :
         (last'.op = "checkout" /\ last'.repo = "A" /\ last'.args = <<b, create>>)
         => LET tip == read_ref(refs'["A"], HeadsRef(b))
            IN /\ last'.exc = ""
               /\ HEAD'["A"] = HeadsRef(b)
               /\ create => /\ HeadsRef(b) \in DOMAIN refs'["A"]
                            /\ tip = head_oid("A")
               /\ Truthy(tip)
                    => /\ tip \in DOMAIN objects["A"]
                       /\ DOMAIN workdir'["A"] = DOMAIN objects["A"][tip].tree
                       /\ \A p \in DOMAIN workdir'["A"] :
                            workdir'["A"][p]
                              = objects["A"][objects["A"][tip].tree[p]]]_vars

\* a checkout of dev has just written a.txt out of dev's commit while the
\* commit of master has an empty tree
C18_Witness ==
    /\ Returned(last, "checkout", "A") /\ last.args = <<"dev", FALSE>>
    /\ Truthy(read_ref(refs["A"], HeadsRef("dev")))
    /\ Truthy(read_ref(refs["A"], HeadsRef("master")))
    /\ objects["A"][refs["A"][HeadsRef("master")]].tree = EmptyMap
    /\ objects["A"][refs["A"][HeadsRef("dev")]].tree # EmptyMap
    /\ workdir["A"] = [p \in {"a.txt"} |-> "1"]

----------------------------------------------------------------------------
(* Status, staged files *)

\* C19: status lists under 'Modified (unstaged)' exactly the working files
\* whose path is in the index and whose bytes differ from the bytes of the
\* staged blob, and leaves the index as it was, in memory and on disk.
C19_StatusModified ==
    [][(last'.op = "status" /\ last'.repo = "A")
       => /\ last'.changed =
               {p \in DOMAIN workdir["A"] \cap DOMAIN index["A"] :
                  workdir["A"][p] # read_blob(objects["A"], index["A"][p])}
          /\ index' = index /\ index_file' = index_file]_vars

----------------------------------------------------------------------------
(* Ancestry *)

\* C20: first-parent-only ancestry.  An unforced delete of a branch whose
\* tip is a commit other than on the first-parent chain of the HEAD commit is
\* refused and the refs are kept, also when the tip is reachable from HEAD
\* through a parent2 link; a tip on that chain lets the delete go through;
\* and merge never fast-forwards when the HEAD commit is not on the
\* first-parent chain of the target.
C20_FirstParentOnly ==
    [][\A b \in BranchNames :
         LET t == read_ref(refs["A"], HeadsRef(b))
             H == head_oid("A")
         IN /\ (/\ last'.op = "delete_branch" /\ last'.repo = "A"
                /\ last'.args = <<b, FALSE>>
                /\ Truthy(t) /\ Truthy(H))
               => IF t \in FirstParentChain(objects["A"], H)
                  THEN last'.exc = "" /\ refs'["A"] = Del(refs["A"], HeadsRef(b))
                  ELSE last'.exc # "" /\ refs' = refs
            /\ (/\ MergeCall(b) /\ Truthy(t) /\ Truthy(H)
                /\ H \notin FirstParentChain(objects["A"], t))
               => last'.ret # "Fast-forwarded"]_vars

\* an unforced delete of dev has just been refused although HEAD is the merge
\* commit that has the tip of dev as its parent2
C20_Witness ==
    /\ last.op = "delete_branch" /\ last.args = <<"dev", FALSE>>
    /\ last.exc = "RuntimeError"
    /\ Truthy(head_oid("A"))
    /\ get(objects["A"][head_oid("A")], "parent2") = read_ref(refs["A"], HeadsRef("dev"))
    /\ Truthy(objects["A"][head_oid("A")].parent)

----------------------------------------------------------------------------
(* Interrupted commit *)

\* the hashes held by the branch heads, tracking heads and stash slots of r
RefValues(rf) == {rf[x] : x \in DOMAIN rf \cap HashRefs} \ {""}

\* C21: crash between the two writes of commit.  When a commit dies after
\* write_commit and before update_ref, every ref file and HEAD are as before,
\* the index holds its entries of before the commit, every non-empty ref
\* names a stored object, no stored object is altered, and the store has
\* gained nothing but the commit object: when that object was not stored
\* already it is the one extra object and no ref names it.
C21_CrashSafe ==
    [][(last'.op = "commit" /\ last'.repo = "A" /\ last'.exc = "crash")
       => LET oid == last'.ret
          IN /\ refs' = refs /\ HEAD' = HEAD
             /\ index'["A"] = index["A"] /\ index_file' = index_file
             /\ workdir' = workdir
             /\ RefValues(refs'["A"]) \subseteq DOMAIN objects'["A"]
             /\ \A o \in DOMAIN objects["A"] : objects'["A"][o] = objects["A"][o]
             /\ DOMAIN objects'["A"] = DOMAIN objects["A"] \cup {oid}
             /\ objects'["A"][oid].tree = index["A"]
             /\ oid \notin DOMAIN objects["A"]
                  => /\ Cardinality(DOMAIN objects'["A"])
                          = Cardinality(DOMAIN objects["A"]) + 1
                     /\ oid \notin RefValues(refs'["A"])]_vars

\* a commit of a staged file has just died on a branch that has a commit:
\* the index still holds the file, the branch still holds the old commit,
\* and the store holds the new commit, which no ref names
C21_Witness ==
    /\ last.op = "commit" /\ last.exc = "crash"
    /\ index["A"] # EmptyMap
    /\ Truthy(head_oid("A"))
    /\ last.ret \in DOMAIN objects["A"]
    /\ last.ret \notin RefValues(refs["A"])
    /\ objects["A"][last.ret].parent = head_oid("A")

----------------------------------------------------------------------------
(* Stash slots *)

\* C22: stash is a stack.  After every step the stash slots are numbered
\* 0..n-1 without a gap; a save writes slot n, one above the highest slot,
\* with the hash it stored; a pop deletes slot n-1, which is the slot of the
\* most recent save not yet popped, and writes that save's files back.
C22_StashStack ==
    [][LET S == Slots(refs["A"])
           T == Slots(refs'["A"])
           n == Cardinality(S)
       IN /\ T = 0..(Cardinality(T) - 1)
          /\ (last'.op = "stash" /\ last'.repo = "A")
               => /\ T = S \cup {n} /\ n \notin S
                  /\ last'.args = <<n>>
                  /\ refs'["A"][StashRef(n)] = last'.ret
                  /\ last'.ret \in DOMAIN objects'["A"]
          /\ (last'.op = "stash_pop" /\ last'.repo = "A" /\ S # {})
               => /\ last'.ret = "Applied stash" /\ last'.args = <<n - 1>>
                  /\ T = S \ {n - 1}
                  /\ Len(stashed["A"]) = n
                  /\ stashed["A"][n].slot = n - 1
                  /\ \A p \in DOMAIN stashed["A"][n].tree :
                       get(workdir'["A"], p) = stashed["A"][n].tree[p]
                  /\ stashed'["A"] = SubSeq(stashed["A"], 1, n - 1)
          /\ (last'.op = "stash_pop" /\ last'.repo = "A" /\ S = {})
               => last'.ret = "No stash entries." /\ T = {}]_vars

\* a save has just written slot 1 for the second time: two slots exist and
\* the store holds three stash commits, one of them popped earlier
C22_Witness ==
    /\ last.op = "stash" /\ last.args = <<1>>
    /\ Slots(refs["A"]) = {0, 1}
    /\ Cardinality({c \in Commits(objects["A"]) :
                      objects["A"][c].message = "WIP stash"}) = 3

----------------------------------------------------------------------------
(* Merge commits *)

\* C23: merge commits have two parents.  In every reachable state every
\* stored commit with a non-empty parent2 has a non-empty parent.
C23_TwoParents ==
    \A r \in Repos : \A c \in Commits(objects[r]) :
        Truthy(get(objects[r][c], "parent2")) => Truthy(objects[r][c].parent)
====
